---- MODULE Spec2Model ----
(***************************************************************************)
(* Movie recommender: the movies table, the match_movies search function,  *)
(* the POST /search handler and the embed_movies ingestion script.         *)
(*                                                                         *)
(* Encoding of values.                                                     *)
(*   - A text is a sequence of one-character strings.                      *)
(*   - A nullable value (SQL NULL, Python None, pandas NaN) is None or     *)
(*     Some(v): the empty tuple or a one-element tuple.                    *)
(*   - An embedding is a pair of integers standing for the provider's      *)
(*     vector.  All vectors of the model have an integer norm, so that the *)
(*     cosine distance is an exact number of hundredths.  The length of    *)
(*     the provider's vectors is held apart, in embedding_dim: the Python  *)
(*     code names text-embedding-3-large (3072) while the table and        *)
(*     match_movies are created with VECTOR(1536), so a deployment is      *)
(*     either the Python code as written or one whose provider returns     *)
(*     vectors of the table's length.                                      *)
(*   - The movies table is a sequence of rows (the heap).                  *)
(*   - The embedding provider is a function of the text it is given (one   *)
(*     fixed model); match_movies is the exact query, with no approximate  *)
(*     index on the column.                                                *)
(*                                                                         *)
(* Specifications.                                                         *)
(*   SpecSearch: the search handler, over every content of the table.      *)
(*   SpecIngest: runs of the ingestion script over every source, from the  *)
(*               empty table, with failing embedding calls and upserts.    *)
(*   SpecStore:  runs of the ingestion script and calls of                 *)
(*               bulk_update_posters on the same table.                    *)
(*   SpecMovie:  one movie, over every content of its source row, from the *)
(*               embedding text and the record to the rendered rating.     *)
(*   SpecPage:   the search page: submissions of the search bar and the    *)
(*               calls of handleSearch they start.                         *)
(*   SpecModal:  MovieModal: mounts, re-renders and unmounts, with the     *)
(*               keydown and backdrop events in between.                   *)
(***************************************************************************)
EXTENDS Integers, Sequences, FiniteSets, TLC

VARIABLES
    store,            \* the movies table
    embedding_dim,    \* length of the vectors the embedding provider returns
    csv,              \* the merged source rows read by the ingestion script
    ipc,              \* ingestion script: position ("idle", "embed", "upsert", "done", "crashed")
    runs,             \* ingestion script: number of runs started
    start,            \* ingestion script: loop variable of the batch loop
    uploaded,         \* ingestion script: the counter `uploaded`
    embeddings,       \* ingestion script: result of get_embeddings for the batch
    attempts,         \* ingestion script: embedding calls issued for the current batch
    failure,          \* ingestion script: what raised ("none", "embed", "upsert")
    stdout,           \* ingestion script: numbers printed by "Uploaded n/total"
    history,          \* how the earlier runs of the script ended
    request,          \* search handler: the parsed SearchRequest
    spc,              \* search handler: position ("idle", "validate", "embed", "rpc", "done")
    query_embedding,  \* search handler: the embedded query
    response,         \* search handler: the HTTP response
    mpc,              \* one movie: how far it has come ("off", "row", "text", "record", "result", "card", "modal")
    movie,            \* one movie: its source row
    embedding_text,   \* one movie: the text built for the embedding provider
    record,           \* one movie: the record the ingestion script builds
    result,           \* one movie: its MovieResult in a search response
    card,             \* one movie: what MovieCard renders for its rating
    modal,            \* one movie: what MovieModal renders for its rating
    bpc,              \* bulk_update_posters: position of its caller ("idle", "returned")
    updates,          \* bulk_update_posters: the argument of the call
    affected,         \* bulk_update_posters: the value the call returned
    movies,           \* search page: the state `movies`
    isLoading,        \* search page: the state `isLoading`
    error,            \* search page: the state `error`
    hasSearched,      \* search page: the state `hasSearched`
    calls,            \* search page: the calls of handleSearch, in the order of submission
    mounted,          \* MovieModal: whether the component is mounted
    onClose,          \* MovieModal: the onClose prop of the last render
    overflow,         \* document.body.style.overflow
    listeners,        \* the keydown listeners registered on document
    effect,           \* MovieModal: the handleKeyDown of the effect that last ran
    renders,          \* MovieModal: number of renders so far
    closed            \* the onClose handlers called so far, in order

ingestVars == <<csv, ipc, runs, start, uploaded, embeddings, attempts, failure, stdout, history>>
searchVars == <<request, spc, query_embedding, response>>
movieVars == <<mpc, movie, embedding_text, record, result, card, modal>>
posterVars == <<bpc, updates, affected>>
pageVars == <<movies, isLoading, error, hasSearched, calls>>
modalVars == <<mounted, onClose, overflow, listeners, effect, renders, closed>>
vars == <<store, embedding_dim, ingestVars, searchVars, movieVars, posterVars, pageVars, modalVars>>

-----------------------------------------------------------------------------
(* Bounds of the model *)

MaxId == 3          \* ids of the rows of a searched table: 1..MaxId
MaxRows == 3        \* rows of the source file
MaxRuns == 2        \* runs of the ingestion script
MaxUpdates == 2     \* entries of the list given to bulk_update_posters
BATCH_SIZE == 2     \* the script's BATCH_SIZE (100), scaled down

-----------------------------------------------------------------------------
(* The embedding model and the vector types *)

MODEL_DIM == 3072     \* EMBEDDING_MODEL = "text-embedding-3-large"
COLUMN_DIM == 1536    \* movies.embedding VECTOR(1536)
QUERY_DIM == 1536     \* match_movies(query_embedding VECTOR(1536), ...)

(* The provider's vector length: that of EMBEDDING_MODEL, or the table's *)
EmbeddingDims == {MODEL_DIM, COLUMN_DIM}

-----------------------------------------------------------------------------
(* Values *)

None == <<>>
Some(v) == <<v>>

Min(a, b) == IF a <= b THEN a ELSE b

Rep(c, n) == [i \in 1..n |-> c]

VectorList == <<(<<5, 0>>), (<<3, 4>>), (<<6, 8>>), (<<-3, 4>>)>>

Vectors == {VectorList[i] : i \in DOMAIN VectorList}

(* The vectors the provider returns for the queries sent *)
QueryVectors == {<<5, 0>>, <<3, 4>>}

Dot(a, b) == a[1] * b[1] + a[2] * b[2]

Norm(a) == CHOOSE n \in 0..(Dot(a, a)) : n * n = Dot(a, a)

(* pgvector's <=> : the cosine distance, in hundredths; NULL on a NULL operand *)
CosineDistance(a, b) ==
    IF a = None \/ b = None
    THEN None
    ELSE Some(100 - ((100 * Dot(a[1], b[1])) \div (Norm(a[1]) * Norm(b[1]))))

-----------------------------------------------------------------------------
(* The movies table *)

(* A row of a table that was filled by other means than the ingestion      *)
(* script: the schema lets every column but id and title be NULL.          *)
TableRow(id, emb) ==
    [id |-> id, title |-> <<"T">>, overview |-> None, release_date |-> None,
     poster_path |-> None, genres |-> <<>>, keywords |-> <<>>,
     vote_average |-> None, vote_count |-> None, embedding |-> emb]

NullableVectors == {None} \cup {Some(v) : v \in Vectors}

(* The tables over the ids 1..MaxId, rows in ascending id *)
RECURSIVE TablesFrom(_)
TablesFrom(id) ==
    IF id > MaxId
    THEN {<<>>}
    ELSE LET rest == TablesFrom(id + 1)
         IN  rest \cup {<<TableRow(id, e)>> \o t : e \in NullableVectors, t \in rest}

Tables == TablesFrom(1)

-----------------------------------------------------------------------------
(* match_movies(query_embedding, match_count) *)

(* The same with no WHERE clause: every row is kept *)
WhereAnyEmbedding(t) == DOMAIN t

(* WHERE m.embedding IS NOT NULL: the positions of the rows kept *)
WhereEmbeddingNotNull(t) == {i \in DOMAIN t : t[i].embedding # None}

(* ORDER BY ... ASC compares two sort keys; NULL sorts last *)
KeyLE(d1, d2) == d2 = None \/ (d1 # None /\ d1[1] <= d2[1])

Orderings(I) ==
    {s \in [1..Cardinality(I) -> I] : \A i, j \in DOMAIN s : s[i] = s[j] => i = j}

(* The same with no ORDER BY: the rows come in any order *)
OrderByDistanceAny(t, I, q) == Orderings(I)

(* ORDER BY m.embedding <=> query_embedding: every order of the positions I *)
(* that is ascending in the distance; the order of equal keys is whatever   *)
(* the executor produces.                                                   *)
OrderByDistance(t, I, q) ==
    {s \in Orderings(I) :
        \A i, j \in DOMAIN s :
            i < j => KeyLE(CosineDistance(t[s[i]].embedding, q),
                           CosineDistance(t[s[j]].embedding, q))}

(* LIMIT match_count, for match_count >= 0 *)
LimitRows(s, n) == SubSeq(s, 1, Min(n, Len(s)))

(* The distance itself in place of 1 - distance *)
SimilarityIsDistance(emb, q) == CosineDistance(emb, q)

(* 1 - (m.embedding <=> query_embedding) AS similarity, in hundredths *)
Similarity(emb, q) ==
    LET d == CosineDistance(emb, q)
    IN  IF d = None THEN None ELSE Some(100 - d[1])

(* The SELECT list *)
SelectRow(m, q) ==
    [id |-> m.id, title |-> m.title, overview |-> m.overview,
     release_date |-> m.release_date, poster_path |-> m.poster_path,
     genres |-> m.genres, vote_average |-> m.vote_average,
     similarity |-> Similarity(m.embedding, Some(q))]

(* The outcomes of one call: an error (LIMIT must not be negative) or one   *)
(* of the row lists the query may produce.                                  *)
match_movies(t, q, match_count) ==
    IF match_count < 0
    THEN {[error |-> TRUE, rows |-> <<>>]}
    ELSE {[error |-> FALSE,
           rows |-> [k \in DOMAIN LimitRows(s, match_count) |->
                        SelectRow(t[LimitRows(s, match_count)[k]], q)]] :
            s \in OrderByDistance(t, WhereEmbeddingNotNull(t), Some(q))}

-----------------------------------------------------------------------------
(* POST /search: search_movies *)

Whitespace == {" ", "\t", "\n"}

(* The same with the query taken as it is *)
NoStrip(s) == s

(* str.strip(): leading and trailing whitespace removed *)
RECURSIVE Strip(_)
Strip(s) ==
    IF s = <<>> THEN s
    ELSE IF Head(s) \in Whitespace THEN Strip(Tail(s))
    ELSE IF s[Len(s)] \in Whitespace THEN Strip(SubSeq(s, 1, Len(s) - 1))
    ELSE s

(* The request bodies sent: the queries, and the limits (None: no limit in  *)
(* the body, the model's default applies)                                   *)
Queries == {<<>>, <<" ">>, <<" ", "\t">>, <<"a">>, <<" ", "a", " ">>}

Limits == {None} \cup {Some(n) : n \in -1..(MaxId + 1)}

DEFAULT_LIMIT == 10

(* SearchRequest: query: str, limit: int = 10 *)
SearchRequest(query, limit) ==
    [query |-> query, limit |-> IF limit = None THEN DEFAULT_LIMIT ELSE limit[1]]

NoRequest == [query |-> <<>>, limit |-> 0]
NoResponse == [status |-> 0, results |-> <<>>, detail |-> "none"]

(* MovieResult(...): pydantic accepts the row; similarity: float is required *)
MovieResultValid(row) == row.similarity # None

(* MovieResult(...) of one row; genres=row["genres"] or [] (a NULL array    *)
(* and the empty array are both the empty sequence here)                    *)
MovieResult(row) ==
    [id |-> row.id, title |-> row.title, overview |-> row.overview,
     release_date |-> row.release_date, poster_path |-> row.poster_path,
     genres |-> row.genres, vote_average |-> row.vote_average,
     similarity |-> row.similarity]

(* The request arrives and is parsed *)
Receive ==
    /\ spc = "idle"
    /\ \E q \in Queries, l \in Limits :
          request' = SearchRequest(q, l)
    /\ spc' = "validate"
    /\ UNCHANGED <<store, embedding_dim, ingestVars, movieVars, query_embedding, response, posterVars, pageVars, modalVars>>

(* if not request.query.strip(): raise HTTPException(400) *)
ValidateQuery ==
    /\ spc = "validate"
    /\ IF Strip(request.query) = <<>>
       THEN /\ response' = [status |-> 400, results |-> <<>>, detail |-> "Query cannot be empty"]
            /\ spc' = "done"
       ELSE /\ spc' = "embed"
            /\ UNCHANGED response
    /\ UNCHANGED <<store, embedding_dim, ingestVars, movieVars, request, query_embedding, posterVars, pageVars, modalVars>>

(* openai_client.embeddings.create(...) returns the query's vector *)
EmbedQuery ==
    /\ spc = "embed"
    /\ \E v \in QueryVectors : query_embedding' = Some(v)
    /\ spc' = "rpc"
    /\ UNCHANGED <<store, embedding_dim, ingestVars, movieVars, request, response, posterVars, pageVars, modalVars>>

(* openai_client.embeddings.create(...) raises: 500 *)
EmbedQueryFail ==
    /\ spc = "embed"
    /\ response' = [status |-> 500, results |-> <<>>, detail |-> "provider error"]
    /\ spc' = "done"
    /\ UNCHANGED <<store, embedding_dim, ingestVars, movieVars, request, query_embedding, posterVars, pageVars, modalVars>>

(* supabase.rpc("match_movies", ...).execute(), the MovieResult loop and    *)
(* the SearchResponse; a query vector that is not of the parameter's       *)
(* length is refused by the cast to VECTOR(1536)                           *)
RpcMatchMovies ==
    /\ spc = "rpc"
    /\ \E out \in match_movies(store, query_embedding[1], request.limit) :
          response' =
             IF embedding_dim # QUERY_DIM \/ out.error
             THEN [status |-> 500, results |-> <<>>, detail |-> "store error"]
             ELSE IF \E k \in DOMAIN out.rows : ~MovieResultValid(out.rows[k])
             THEN [status |-> 500, results |-> <<>>, detail |-> "result validation error"]
             ELSE [status |-> 200,
                   results |-> [k \in DOMAIN out.rows |-> MovieResult(out.rows[k])],
                   detail |-> "ok"]
    /\ spc' = "done"
    /\ UNCHANGED <<store, embedding_dim, ingestVars, movieVars, request, query_embedding, posterVars, pageVars, modalVars>>

(* A handler that swallows the store's exception and answers 200 with an  *)
(* empty list                                                              *)
RpcFailAsEmptyList ==
    /\ spc = "rpc"
    /\ response' = [status |-> 200, results |-> <<>>, detail |-> "ok"]
    /\ spc' = "done"
    /\ UNCHANGED <<store, embedding_dim, ingestVars, movieVars, request, query_embedding, posterVars, pageVars, modalVars>>

(* supabase.rpc(...).execute() raises (the store is unreachable): 500 *)
RpcFail ==
    /\ spc = "rpc"
    /\ response' = [status |-> 500, results |-> <<>>, detail |-> "store error"]
    /\ spc' = "done"
    /\ UNCHANGED <<store, embedding_dim, ingestVars, movieVars, request, query_embedding, posterVars, pageVars, modalVars>>

(* The handler has answered; the next request may arrive *)
NextRequest ==
    /\ spc = "done"
    /\ spc' = "idle"
    /\ request' = NoRequest
    /\ query_embedding' = None
    /\ response' = NoResponse
    /\ UNCHANGED <<store, embedding_dim, ingestVars, movieVars, posterVars, pageVars, modalVars>>

SearchNext ==
    \/ Receive
    \/ ValidateQuery
    \/ EmbedQuery
    \/ EmbedQueryFail
    \/ RpcMatchMovies
    \/ RpcFail
    \/ NextRequest

IngestIdle ==
    /\ csv = <<>>
    /\ ipc = "idle"
    /\ runs = 0
    /\ start = 0
    /\ uploaded = 0
    /\ embeddings = <<>>
    /\ attempts = 0
    /\ failure = "none"
    /\ stdout = <<>>
    /\ history = <<>>

SearchIdle ==
    /\ request = NoRequest
    /\ spc = "idle"
    /\ query_embedding = None
    /\ response = NoResponse

PageIdle ==
    /\ movies = <<>>
    /\ isLoading = FALSE
    /\ error = None
    /\ hasSearched = FALSE
    /\ calls = <<>>

ModalIdle ==
    /\ mounted = FALSE
    /\ onClose = 0
    /\ overflow = ""
    /\ listeners = {}
    /\ effect = None
    /\ renders = 0
    /\ closed = <<>>

PosterIdle ==
    /\ bpc = "idle"
    /\ updates = <<>>
    /\ affected = 0

MovieIdle ==
    /\ mpc = "off"
    /\ movie = None
    /\ embedding_text = <<>>
    /\ record = None
    /\ result = None
    /\ card = None
    /\ modal = None

(* The search handler over every content of the movies table *)
SearchInit ==
    /\ store \in Tables
    /\ embedding_dim \in EmbeddingDims
    /\ IngestIdle
    /\ SearchIdle
    /\ MovieIdle
    /\ PosterIdle
    /\ PageIdle
    /\ ModalIdle

SpecSearch == SearchInit /\ [][SearchNext]_vars

-----------------------------------------------------------------------------
(* frontend/app/page.tsx: handleSearch *)

SEARCH_FAILED == "Failed to search movies. Please try again."

(* response.ok: the status is in the range 200-299 *)
ResponseOk(resp) == resp.status \in 200..299

(* The page state handleSearch leaves behind once the fetch has settled     *)
(* with resp: setError(null) at the start, then setMovies(data.results),   *)
(* or in the catch block setError(...) and setMovies([]); finally          *)
(* setIsLoading(false)                                                      *)
handleSearch(resp) ==
    IF ResponseOk(resp)
    THEN [movies |-> resp.results, error |-> None, isLoading |-> FALSE,
          hasSearched |-> TRUE]
    ELSE [movies |-> <<>>, error |-> Some(SEARCH_FAILED), isLoading |-> FALSE,
          hasSearched |-> TRUE]

-----------------------------------------------------------------------------
(* frontend/app/page.tsx and components/SearchBar.tsx: the search page *)

MaxSearches == 2    \* submissions of the search form

(* query.trim() *)
Trim(s) == Strip(s)

(* What the user may have typed into the input *)
PageQueries == {<<" ">>, <<"a">>, <<" ", "b">>}

(* The result lists a 200 response may carry *)
PageMovie(id) == MovieResult(SelectRow(TableRow(id, Some(<<3, 4>>)), <<5, 0>>))
PageResults == {<<>>, <<PageMovie(1)>>, <<PageMovie(2), PageMovie(1)>>}

(* The responses the fetch may resolve with *)
PageResponses ==
    {[status |-> 200, results |-> r, detail |-> "ok"] : r \in PageResults}
    \cup {[status |-> 500, results |-> <<>>, detail |-> "store error"]}

(* A search bar that stays enabled during a search *)
SearchBarAlwaysEnabled == TRUE

(* <input disabled={isLoading}>, <button disabled={isLoading || !query.trim()}> *)
SearchBarEnabled == ~isLoading

(* handleSubmit and the start of handleSearch: if (query.trim())            *)
(* onSearch(query.trim()); setIsLoading(true), setError(null),             *)
(* setHasSearched(true), and the fetch is sent                             *)
Submit ==
    /\ SearchBarEnabled
    /\ Len(calls) < MaxSearches
    /\ \E q \in PageQueries :
          /\ Trim(q) # <<>>
          /\ calls' = Append(calls, [query |-> Trim(q), pc |-> "fetch",
                                     response |-> NoResponse, failed |-> FALSE])
    /\ isLoading' = TRUE
    /\ error' = None
    /\ hasSearched' = TRUE
    /\ UNCHANGED <<store, embedding_dim, ingestVars, searchVars, movieVars, posterVars, modalVars, movies>>

(* A catch block with nothing after it *)
CatchWithoutFinally(c, resp) ==
    /\ calls' = [calls EXCEPT ![c].pc = "settled", ![c].response = resp, ![c].failed = TRUE]
    /\ error' = Some(SEARCH_FAILED)
    /\ movies' = <<>>
    /\ UNCHANGED <<isLoading, hasSearched>>

(* catch: setError(...), setMovies([]); finally: setIsLoading(false) *)
Catch(c, resp) ==
    /\ calls' = [calls EXCEPT ![c].pc = "settled", ![c].response = resp, ![c].failed = TRUE]
    /\ error' = Some(SEARCH_FAILED)
    /\ movies' = <<>>
    /\ isLoading' = FALSE
    /\ UNCHANGED hasSearched

(* await fetch(...) resolves: if (!response.ok) throw; else the body is     *)
(* awaited                                                                 *)
FetchResolves ==
    /\ \E c \in DOMAIN calls :
          /\ calls[c].pc = "fetch"
          /\ \E resp \in PageResponses :
                IF ResponseOk(resp)
                THEN /\ calls' = [calls EXCEPT ![c].pc = "json", ![c].response = resp]
                     /\ UNCHANGED <<movies, isLoading, error, hasSearched>>
                ELSE Catch(c, resp)
    /\ UNCHANGED <<store, embedding_dim, ingestVars, searchVars, movieVars, posterVars, modalVars>>

(* await fetch(...) rejects (the server is not reachable) *)
FetchRejects ==
    /\ \E c \in DOMAIN calls :
          /\ calls[c].pc = "fetch"
          /\ Catch(c, NoResponse)
    /\ UNCHANGED <<store, embedding_dim, ingestVars, searchVars, movieVars, posterVars, modalVars>>

(* await response.json() resolves: setMovies(data.results); finally:        *)
(* setIsLoading(false)                                                      *)
JsonResolves ==
    /\ \E c \in DOMAIN calls :
          /\ calls[c].pc = "json"
          /\ calls' = [calls EXCEPT ![c].pc = "settled"]
          /\ movies' = calls[c].response.results
    /\ isLoading' = FALSE
    /\ UNCHANGED <<store, embedding_dim, ingestVars, searchVars, movieVars, posterVars, modalVars, error, hasSearched>>

(* await response.json() rejects (the body is no JSON) *)
JsonRejects ==
    /\ \E c \in DOMAIN calls :
          /\ calls[c].pc = "json"
          /\ Catch(c, calls[c].response)
    /\ UNCHANGED <<store, embedding_dim, ingestVars, searchVars, movieVars, posterVars, modalVars>>

PageNext ==
    \/ Submit
    \/ FetchResolves
    \/ FetchRejects
    \/ JsonResolves
    \/ JsonRejects

PageInit ==
    /\ store = <<>>
    /\ embedding_dim = COLUMN_DIM
    /\ IngestIdle
    /\ SearchIdle
    /\ MovieIdle
    /\ PosterIdle
    /\ PageIdle
    /\ ModalIdle

SpecPage == PageInit /\ [][PageNext]_vars

-----------------------------------------------------------------------------
(* scripts/embed_movies.py: the source rows *)

(* A row of movies_df after the keywords were merged in.  id is the text   *)
(* of the cell; a missing cell (NaN) is None.                              *)
SourceRow(id, title, overview, release_date, vote_average) ==
    [id |-> id, title |-> title, overview |-> overview, release_date |-> release_date,
     poster_path |-> None, genre_names |-> <<>>, keyword_names |-> <<>>,
     vote_average |-> vote_average, vote_count |-> None]

(* A release_date cell with a time after the date, and one that is no date *)
Timestamp == <<"2", "0", "0", "0", "-", "0", "1", "-", "0", "1", " ", "0">>
NotADate == <<"n", "/", "a">>

SourceRows ==
    {SourceRow(<<"1">>, Some(<<"A">>), Some(Rep("o", 11)), None, None),
     SourceRow(<<"2">>, Some(<<"B">>), Some(Rep("o", 12)), None, Some(0)),
     SourceRow(<<"3">>, Some(<<"A">>), Some(Rep("o", 11)), Some(Timestamp), Some(7)),
     SourceRow(<<"3">>, Some(<<"B">>), Some(Rep("o", 11)), Some(NotADate), None),
     SourceRow(<<"1">>, Some(<<"B">>), Some(Rep("o", 11)), None, None),
     SourceRow(<<"1", ".", "5">>, Some(<<"A">>), Some(Rep("o", 12)), None, None),
     SourceRow(<<"x">>, Some(<<"A">>), Some(Rep("o", 11)), None, None),
     SourceRow(<<"4">>, None, Some(Rep("o", 11)), None, None),
     SourceRow(<<"4">>, Some(<<"A">>), Some(Rep("o", 10)), None, None),
     SourceRow(<<"2">>, Some(<<"A">>), None, None, None)}

(* The source files: up to MaxRows rows *)
Sources == UNION {[1..n -> SourceRows] : n \in 0..MaxRows}

-----------------------------------------------------------------------------
(* scripts/embed_movies.py: the pure steps of main() *)

Digits == {"0", "1", "2", "3", "4", "5", "6", "7", "8", "9"}

DigitValue(c) == CHOOSE d \in 0..9 : ToString(d) = c

IsDigits(s) == s # <<>> /\ \A i \in DOMAIN s : s[i] \in Digits

RECURSIVE Decimal(_)
Decimal(s) ==
    IF s = <<>> THEN 0
    ELSE 10 * Decimal(SubSeq(s, 1, Len(s) - 1)) + DigitValue(s[Len(s)])

(* pd.to_numeric(..., errors="coerce"): the number, or NaN.  A number is   *)
(* held as its double (the model's numbers are the multiples of one half). *)
ToNumeric(s) ==
    IF IsDigits(s) THEN Some(2 * Decimal(s))
    ELSE IF /\ Len(s) >= 3
            /\ IsDigits(SubSeq(s, 1, Len(s) - 2))
            /\ s[Len(s) - 1] = "."
            /\ s[Len(s)] \in {"0", "5"}
    THEN Some(2 * Decimal(SubSeq(s, 1, Len(s) - 2)) + (IF s[Len(s)] = "5" THEN 1 ELSE 0))
    ELSE None

(* int(x) of a number held as its double: the fraction is cut off *)
ToInt(x) == x \div 2

(* The same with >= for > *)
OverviewLongEnoughOrEqual(o) == Len(o) >= 10

(* movies_df["overview"].str.len() > 10 *)
OverviewLongEnough(o) == Len(o) > 10

(* The filter of valid_movies *)
IsValidMovie(row) ==
    /\ ToNumeric(row.id) # None
    /\ row.title # None
    /\ row.overview # None
    /\ OverviewLongEnough(row.overview[1])

(* drop_duplicates(subset=["id"]): the first row of each id is kept *)
RECURSIVE DropDuplicates(_)
DropDuplicates(s) ==
    IF s = <<>> THEN <<>>
    ELSE LET front == SubSeq(s, 1, Len(s) - 1)
             last == s[Len(s)]
         IN  IF \E i \in DOMAIN front : ToNumeric(front[i].id) = ToNumeric(last.id)
             THEN DropDuplicates(front)
             ELSE Append(DropDuplicates(front), last)

valid_movies(source) == DropDuplicates(SelectSeq(source, IsValidMovie))

RECURSIVE Join(_, _)
Join(parts, sep) ==
    IF parts = <<>> THEN <<>>
    ELSE IF Len(parts) = 1 THEN parts[1]
    ELSE parts[1] \o sep \o Join(Tail(parts), sep)

Take(s, n) == SubSeq(s, 1, Min(n, Len(s)))

(* build_embedding_text(row), for a row of valid_movies *)
build_embedding_text(row) ==
    LET title == row.title[1]
        overview == row.overview[1]
        genres == Join(row.genre_names, <<",", " ">>)
        keywords == Join(Take(row.keyword_names, 20), <<",", " ">>)
        parts == <<title>>
                 \o (IF overview # <<>> THEN <<overview>> ELSE <<>>)
                 \o (IF genres # <<>> THEN <<(<<"G", "e", "n", "r", "e", "s", ":", " ">> \o genres)>> ELSE <<>>)
                 \o (IF keywords # <<>>
                     THEN <<(<<"K", "e", "y", "w", "o", "r", "d", "s", ":", " ">> \o keywords)>>
                     ELSE <<>>)
    IN  Join(parts, <<".", " ">>)

(* The embedding provider, for the fixed EMBEDDING_MODEL: a function of the *)
(* text                                                                     *)
Embed(text) == VectorList[(Len(text) % Len(VectorList)) + 1]

(* get_embeddings(texts): one vector per text, in the order of the texts *)
get_embeddings(texts) == [i \in DOMAIN texts |-> Embed(texts[i])]

(* The record of one row of the batch *)
BuildRecord(row, embedding) ==
    [id |-> ToInt(ToNumeric(row.id)[1]),
     title |-> row.title[1],
     overview |-> row.overview,
     release_date |-> IF row.release_date # None
                      THEN Some(Take(row.release_date[1], 10))
                      ELSE None,
     poster_path |-> row.poster_path,
     genres |-> row.genre_names,
     keywords |-> Take(row.keyword_names, 20),
     vote_average |-> row.vote_average,
     vote_count |-> row.vote_count,
     embedding |-> Some(embedding)]

(* batch = valid_movies.iloc[start:end] *)
Batch(valid, from) == SubSeq(valid, from + 1, Min(from + BATCH_SIZE, Len(valid)))

BatchTexts(batch) == [i \in DOMAIN batch |-> build_embedding_text(batch[i])]

(* Every record paired with the first vector of the response *)
RecordsWithFirstVector(batch, embs) == [idx \in DOMAIN batch |-> BuildRecord(batch[idx], embs[1])]

Records(batch, embs) == [idx \in DOMAIN batch |-> BuildRecord(batch[idx], embs[idx])]

-----------------------------------------------------------------------------
(* supabase.table("movies").upsert(records) *)

(* A plain INSERT of one record, with no conflict clause *)
InsertRow(t, r) == Append(t, r)

(* INSERT ... ON CONFLICT (id) DO UPDATE of one record *)
UpsertRow(t, r) ==
    IF \E i \in DOMAIN t : t[i].id = r.id
    THEN [i \in DOMAIN t |-> IF t[i].id = r.id THEN r ELSE t[i]]
    ELSE Append(t, r)

(* release_date DATE: the column's input, YYYY-MM-DD *)
IsDate(s) ==
    /\ Len(s) = 10
    /\ s[5] = "-"
    /\ s[8] = "-"
    /\ \A i \in {1, 2, 3, 4, 6, 7, 9, 10} : s[i] \in Digits

(* The statement is refused as a whole when two of its records carry the    *)
(* same id (ON CONFLICT DO UPDATE cannot affect a row a second time) or     *)
(* when a release_date is no input of the DATE column                       *)
UpsertRejects(records) ==
    \/ \E i, j \in DOMAIN records : i # j /\ records[i].id = records[j].id
    \/ \E i \in DOMAIN records :
          records[i].release_date # None /\ ~IsDate(records[i].release_date[1])

(* A plain INSERT of the records *)
InsertAll(t, records) == t \o records

(* INSERT ... ON CONFLICT (id) DO UPDATE of the records, one statement *)

RECURSIVE Upsert(_, _)
Upsert(t, records) ==
    IF records = <<>> THEN t
    ELSE Upsert(UpsertRow(t, Head(records)), Tail(records))

-----------------------------------------------------------------------------
(* scripts/embed_movies.py: main() *)

total == Len(valid_movies(csv))

CurrentBatch == Batch(valid_movies(csv), start)

(* The same counting one per batch *)
CountRows(n, records) == n + 1

(* uploaded += len(records) *)
CountUploaded(n, records) == n + Len(records)

(* python scripts/embed_movies.py: the script is started (again); it reads  *)
(* and filters the source and enters the batch loop                         *)
StartRun ==
    /\ ipc \in {"idle", "done", "crashed"}
    /\ runs < MaxRuns
    /\ runs' = runs + 1
    /\ history' = IF ipc = "idle"
                  THEN history
                  ELSE Append(history, [result |-> ipc, failure |-> failure, uploaded |-> uploaded])
    /\ start' = 0
    /\ uploaded' = 0
    /\ embeddings' = <<>>
    /\ attempts' = 0
    /\ failure' = "none"
    /\ stdout' = <<>>
    /\ ipc' = IF total = 0 THEN "done" ELSE "embed"
    /\ UNCHANGED <<store, csv, searchVars, movieVars, embedding_dim, posterVars, pageVars, modalVars>>

(* embeddings = get_embeddings(texts) returns *)
GetEmbeddings ==
    /\ ipc = "embed"
    /\ attempts' = attempts + 1
    /\ embeddings' = get_embeddings(BatchTexts(CurrentBatch))
    /\ ipc' = "upsert"
    /\ UNCHANGED <<store, csv, runs, start, uploaded, failure, stdout, history, searchVars, movieVars, embedding_dim, posterVars, pageVars, modalVars>>

(* get_embeddings(texts) raises: nothing catches it, the script ends *)
GetEmbeddingsFail ==
    /\ ipc = "embed"
    /\ attempts' = attempts + 1
    /\ failure' = "embed"
    /\ ipc' = "crashed"
    /\ UNCHANGED <<store, csv, runs, start, uploaded, embeddings, stdout, history, searchVars, movieVars, embedding_dim, posterVars, pageVars, modalVars>>

(* records are built, supabase.table("movies").upsert(records).execute()    *)
(* succeeds, the counter is printed and the loop goes on; vectors that are *)
(* not of the column's length are refused                                  *)
UpsertBatch ==
    /\ ipc = "upsert"
    /\ LET records == Records(CurrentBatch, embeddings)
       IN  /\ embedding_dim = COLUMN_DIM
           /\ ~UpsertRejects(records)
           /\ store' = Upsert(store, records)
           /\ uploaded' = CountUploaded(uploaded, records)
           /\ stdout' = Append(stdout, CountUploaded(uploaded, records))
    /\ IF start + BATCH_SIZE < total
       THEN /\ start' = start + BATCH_SIZE
            /\ ipc' = "embed"
            /\ attempts' = 0
            /\ embeddings' = <<>>
       ELSE /\ ipc' = "done"
            /\ UNCHANGED <<start, attempts, embeddings>>
    /\ UNCHANGED <<csv, runs, failure, history, searchVars, movieVars, embedding_dim, posterVars, pageVars, modalVars>>

(* upsert(records).execute() raises (the store is unreachable, or it        *)
(* refuses the statement): the statement writes nothing, the script ends    *)
UpsertFail ==
    /\ ipc = "upsert"
    /\ failure' = "upsert"
    /\ ipc' = "crashed"
    /\ UNCHANGED <<store, csv, runs, start, uploaded, embeddings, attempts, stdout, history, searchVars, movieVars, embedding_dim, posterVars, pageVars, modalVars>>

IngestNext ==
    \/ StartRun
    \/ GetEmbeddings
    \/ GetEmbeddingsFail
    \/ UpsertBatch
    \/ UpsertFail

(* The ingestion script over every source, on the table as created *)
IngestInit ==
    /\ store = <<>>
    /\ embedding_dim \in EmbeddingDims
    /\ csv \in Sources
    /\ ipc = "idle"
    /\ runs = 0
    /\ start = 0
    /\ uploaded = 0
    /\ embeddings = <<>>
    /\ attempts = 0
    /\ failure = "none"
    /\ stdout = <<>>
    /\ history = <<>>
    /\ SearchIdle
    /\ MovieIdle
    /\ PosterIdle
    /\ PageIdle
    /\ ModalIdle

SpecIngest == IngestInit /\ [][IngestNext]_vars

-----------------------------------------------------------------------------
(* bulk_update_posters(updates JSONB) *)

(* An element of the JSON array: {"id": ..., "poster_path": ...} *)
PosterIds == {1, 4}
PosterPaths == {None, Some(<<"/", "p">>)}
PosterUpdate == [id : PosterIds, poster_path : PosterPaths]
PosterUpdates == UNION {[1..n -> PosterUpdate] : n \in 0..MaxUpdates}

(* FROM jsonb_to_recordset(updates) AS u ... WHERE m.id = u.id: the entries *)
(* that join with the row m                                                 *)
JoinedEntries(m, u) == {k \in DOMAIN u : u[k].id = m.id}

(* A poster update that also forgets the row's embedding *)
SetPosterDropEmbedding(m, entry) ==
    [m EXCEPT !.poster_path = entry.poster_path, !.embedding = None]

(* SET poster_path = u.poster_path *)
SetPoster(m, entry) == [m EXCEPT !.poster_path = entry.poster_path]

(* UPDATE movies m SET ... FROM ... WHERE ...: every row that joins is      *)
(* updated once; when several entries join with it, from any one of them    *)
UpdatePosters(t, u) ==
    LET choices == {c \in [DOMAIN t -> 0..Len(u)] :
                       \A i \in DOMAIN t :
                          IF JoinedEntries(t[i], u) = {}
                          THEN c[i] = 0
                          ELSE c[i] \in JoinedEntries(t[i], u)}
    IN  {[i \in DOMAIN t |-> IF c[i] = 0 THEN t[i] ELSE SetPoster(t[i], u[c[i]])] :
            c \in choices}

(* A count of the entries of the list *)
EntryCount(t, u) == Len(u)

(* GET DIAGNOSTICS affected = ROW_COUNT: the rows the UPDATE wrote *)
RowCount(t, u) == Cardinality({i \in DOMAIN t : JoinedEntries(t[i], u) # {}})

(* SELECT bulk_update_posters(u): the function runs as one statement and   *)
(* returns                                                                 *)
BulkUpdatePosters ==
    /\ bpc = "idle"
    /\ \E u \in PosterUpdates :
          /\ updates' = u
          /\ store' \in UpdatePosters(store, u)
          /\ affected' = RowCount(store, u)
    /\ bpc' = "returned"
    /\ UNCHANGED <<embedding_dim, ingestVars, searchVars, movieVars, pageVars, modalVars>>

(* The caller has taken the returned count *)
PostersUpdated ==
    /\ bpc = "returned"
    /\ bpc' = "idle"
    /\ updates' = <<>>
    /\ affected' = 0
    /\ UNCHANGED <<store, embedding_dim, ingestVars, searchVars, movieVars, pageVars, modalVars>>

(* The sources of the runs that share the table with bulk_update_posters:   *)
(* rows the script stores                                                   *)
StoredSourceRows ==
    {SourceRow(<<"1">>, Some(<<"A">>), Some(Rep("o", 11)), None, None),
     SourceRow(<<"2">>, Some(<<"B">>), Some(Rep("o", 12)), None, Some(0))}

StoredSources == {s \in Sources : \A i \in DOMAIN s : s[i] \in StoredSourceRows}

(* The script and the callers of bulk_update_posters take their steps in   *)
(* any order                                                               *)
StoreNext ==
    \/ IngestNext
    \/ BulkUpdatePosters
    \/ PostersUpdated

StoreInit ==
    /\ store = <<>>
    /\ embedding_dim = COLUMN_DIM
    /\ csv \in StoredSources
    /\ ipc = "idle"
    /\ runs = 0
    /\ start = 0
    /\ uploaded = 0
    /\ embeddings = <<>>
    /\ attempts = 0
    /\ failure = "none"
    /\ stdout = <<>>
    /\ history = <<>>
    /\ SearchIdle
    /\ MovieIdle
    /\ PosterIdle
    /\ PageIdle
    /\ ModalIdle

SpecStore == StoreInit /\ [][StoreNext]_vars

-----------------------------------------------------------------------------
(* MovieCard.tsx and MovieModal: the rating of a movie *)

(* vote_average.toFixed(1); the ratings of the model are whole numbers *)
ToFixed1(v) == ToString(v) \o ".0"

Nothing == [kind |-> "nothing", text |-> ""]

(* {movie.vote_average && (<div>{movie.vote_average.toFixed(1)}</div>)}:    *)
(* null renders nothing; 0 is falsy, the expression is the number 0 and    *)
(* React renders it as the text "0" in place of the badge                  *)
MovieCardRating(m) ==
    IF m.vote_average = None THEN Nothing
    ELSE IF m.vote_average[1] = 0 THEN [kind |-> "text", text |-> "0"]
    ELSE [kind |-> "badge", text |-> ToFixed1(m.vote_average[1])]

(* {movie.vote_average != null && (... {movie.vote_average.toFixed(1)} ...)} *)
MovieModalRating(m) ==
    IF m.vote_average # None
    THEN [kind |-> "badge", text |-> ToFixed1(m.vote_average[1])]
    ELSE Nothing

(* {movie.vote_count != null && (...)}, inside the rating; a search result  *)
(* has no vote_count field (undefined)                                      *)
MovieModalVotes(m) ==
    IF m.vote_average # None /\ "vote_count" \in DOMAIN m /\ m.vote_count # None
    THEN [kind |-> "badge", text |-> ToString(m.vote_count[1])]
    ELSE Nothing

-----------------------------------------------------------------------------
(* One movie, from its source row to the screen *)

MovieRow(overview, genre_names, keyword_names, vote_average, vote_count) ==
    [id |-> <<"1">>, title |-> Some(<<"T">>), overview |-> Some(overview),
     release_date |-> None, poster_path |-> None,
     genre_names |-> genre_names, keyword_names |-> keyword_names,
     vote_average |-> vote_average, vote_count |-> vote_count]

Overviews == {<<>>, <<"o">>, <<"o", ".">>}
GenreLists == {<<>>, <<(<<"D">>)>>, <<(<<"D">>), (<<"R">>)>>}
KeywordLists ==
    {<<>>, <<(<<"k">>)>>, <<(<<"k">>), (<<"l">>)>>,
     [i \in 1..21 |-> IF i <= 20 THEN <<"k">> ELSE <<"z">>]}
VoteAverages == {None, Some(0), Some(7)}
VoteCounts == {None, Some(0), Some(5)}

MovieRows ==
    {MovieRow(o, g, k, va, vc) :
        o \in Overviews, g \in GenreLists, k \in KeywordLists,
        va \in VoteAverages, vc \in VoteCounts}

(* movies_df["embedding_text"] = movies_df.apply(build_embedding_text) *)
BuildText ==
    /\ mpc = "row"
    /\ embedding_text' = build_embedding_text(movie)
    /\ mpc' = "text"
    /\ UNCHANGED <<store, embedding_dim, ingestVars, searchVars, movie, record, result, card, modal, posterVars, pageVars, modalVars>>

(* records.append({...}) with the vector of the movie's text *)
AppendRecord ==
    /\ mpc = "text"
    /\ record' = BuildRecord(movie, Embed(embedding_text))
    /\ mpc' = "record"
    /\ UNCHANGED <<store, embedding_dim, ingestVars, searchVars, movie, embedding_text, result, card, modal, posterVars, pageVars, modalVars>>

(* The stored record comes back as a row of match_movies and becomes a     *)
(* MovieResult of the response                                             *)
ReturnResult ==
    /\ mpc = "record"
    /\ \E q \in QueryVectors : result' = MovieResult(SelectRow(record, q))
    /\ mpc' = "result"
    /\ UNCHANGED <<store, embedding_dim, ingestVars, searchVars, movie, embedding_text, record, card, modal, posterVars, pageVars, modalVars>>

(* <MovieCard movie={movie} /> *)
RenderCard ==
    /\ mpc = "result"
    /\ card' = MovieCardRating(result)
    /\ mpc' = "card"
    /\ UNCHANGED <<store, embedding_dim, ingestVars, searchVars, movie, embedding_text, record, result, modal, posterVars, pageVars, modalVars>>

(* <MovieModal movie={movie} /> *)
RenderModal ==
    /\ mpc = "card"
    /\ modal' = [rating |-> MovieModalRating(result), votes |-> MovieModalVotes(result)]
    /\ mpc' = "modal"
    /\ UNCHANGED <<store, embedding_dim, ingestVars, searchVars, movie, embedding_text, record, result, card, posterVars, pageVars, modalVars>>

MovieNext ==
    \/ BuildText
    \/ AppendRecord
    \/ ReturnResult
    \/ RenderCard
    \/ RenderModal

MovieInit ==
    /\ store = <<>>
    /\ embedding_dim = COLUMN_DIM
    /\ IngestIdle
    /\ SearchIdle
    /\ PosterIdle
    /\ PageIdle
    /\ ModalIdle
    /\ mpc = "row"
    /\ movie \in MovieRows
    /\ embedding_text = <<>>
    /\ record = None
    /\ result = None
    /\ card = None
    /\ modal = None

SpecMovie == MovieInit /\ [][MovieNext]_vars

-----------------------------------------------------------------------------
(* Properties of the search (under SpecSearch) *)

Results == response.results

Answered200 == spc = "done" /\ response.status = 200

EmbeddedRows == {i \in DOMAIN store : store[i].embedding # None}

IsBlank(q) == \A i \in DOMAIN q : q[i] \in Whitespace

(* C1: a successful search with a positive limit returns at most `limit`   *)
(* rows, and the rows are in non-increasing similarity.                    *)
C1_AtMostLimitSortedBySimilarity ==
    (Answered200 /\ request.limit > 0) =>
        /\ Len(Results) <= request.limit
        /\ \A i, j \in DOMAIN Results :
              i < j => Results[i].similarity[1] >= Results[j].similarity[1]

C1_Witness ==
    /\ Answered200
    /\ request.limit > 0
    /\ Cardinality(EmbeddedRows) > request.limit
    /\ Len(Results) = request.limit
    /\ Len(Results) >= 2
    /\ Results[1].similarity[1] > Results[2].similarity[1]

(* C2: over a table that mixes rows with and without an embedding the      *)
(* search does not fail on a row, and no returned row has a NULL stored    *)
(* embedding.                                                              *)
C2_NullEmbeddingsExcluded ==
    spc = "done" =>
        /\ response.detail # "result validation error"
        /\ response.status = 200 =>
              \A k \in DOMAIN Results :
                 /\ Results[k].similarity # None
                 /\ \E i \in DOMAIN store :
                       store[i].id = Results[k].id /\ store[i].embedding # None

C2_Witness ==
    /\ Answered200
    /\ Results # <<>>
    /\ \E i \in DOMAIN store : store[i].embedding = None
    /\ Len(Results) = Cardinality(EmbeddedRows)

(* C3: a request whose query is empty or all whitespace is answered 400;   *)
(* it is never embedded, never searched and never answered 200.            *)
C3_BlankQueryIs400 ==
    (spc \notin {"idle", "validate"} /\ IsBlank(request.query)) =>
        /\ spc = "done"
        /\ response.status = 400
        /\ response.results = <<>>

C3_Witness ==
    /\ spc = "done"
    /\ request.query = <<" ", "\t">>
    /\ response.status = 400

(* C11: every search request ends either with the full list the store      *)
(* produced for it (status 200; one result for each of the rows with an    *)
(* embedding, up to the limit, none twice, each as the store returned it;  *)
(* handed to the page unchanged, no error shown; the order is C1's) or     *)
(* with an error and no results at all (an empty list in                   *)
(* the response, an error message and an empty list on the page); a failed *)
(* embedding call or store call always ends the second way, never with a   *)
(* partial list.                                                           *)
C11_FullListOrError ==
    spc = "done" =>
        LET page == handleSearch(response) IN
        \/ /\ response.status = 200
           /\ query_embedding # None
           /\ request.limit >= 0
           /\ Len(Results) = Min(request.limit, Cardinality(EmbeddedRows))
           /\ \A k \in DOMAIN Results :
                 \E i \in EmbeddedRows :
                    Results[k] = MovieResult(SelectRow(store[i], query_embedding[1]))
           /\ \A k, l \in DOMAIN Results : Results[k].id = Results[l].id => k = l
           /\ page.movies = Results
           /\ page.error = None
        \/ /\ response.status \in {400, 500}
           /\ Results = <<>>
           /\ page.movies = <<>>
           /\ page.error # None

(* The store call failed on a table that has rows to return *)
C11_Witness ==
    /\ spc = "done"
    /\ response.status = 500
    /\ response.detail = "store error"
    /\ request.limit > 0
    /\ EmbeddedRows # {}
    /\ handleSearch(response).movies = <<>>

(* C12 (second half): a query vector is compared with the stored vectors   *)
(* only when it has their length: a 200 answer is given only when the      *)
(* provider's vectors, the parameter of match_movies and the column agree. *)
C12_NeverComparedAcrossDimensions ==
    Answered200 => embedding_dim = QUERY_DIM /\ QUERY_DIM = COLUMN_DIM

(* The stored row a result was made from *)
RowOfResult(k) == CHOOSE i \in DOMAIN store : store[i].id = Results[k].id

(* C17 (as stated): every similarity value returned by the search lies in  *)
(* [0,1] (0..100 hundredths), for every query vector and stored vector.    *)
C17_SimilarityInZeroOne ==
    Answered200 =>
        \A k \in DOMAIN Results : Results[k].similarity[1] \in 0..100

(* C17 (amended): every similarity value returned by the search is 1 minus *)
(* the cosine distance of the stored vector and the query vector, the      *)
(* distance lies in [0,2], and so the similarity lies in [-1,1].           *)
C17_SimilarityInMinusOneOne ==
    Answered200 =>
        \A k \in DOMAIN Results :
            LET d == CosineDistance(store[RowOfResult(k)].embedding, query_embedding)[1]
            IN  /\ d \in 0..200
                /\ Results[k].similarity[1] = 100 - d
                /\ Results[k].similarity[1] \in -100..100

(* A result whose stored vector makes an obtuse angle with the query       *)
C17_Witness ==
    /\ Answered200
    /\ \E k \in DOMAIN Results : Results[k].similarity[1] < 0

(* C4: a request with limit <= 0 is answered with a validation error, and  *)
(* a search whose limit exceeds the number of rows with an embedding       *)
(* returns all of those rows.                                              *)
C4_LimitValidated ==
    (spc = "done" /\ ~IsBlank(request.query) /\ response.detail # "provider error") =>
        /\ request.limit <= 0 => response.status \in {400, 422}
        /\ (response.status = 200 /\ request.limit > Cardinality(EmbeddedRows)) =>
              {Results[k].id : k \in DOMAIN Results} = {store[i].id : i \in EmbeddedRows}

(* The half of C4 about a limit above the number of rows *)
C4_LargeLimitReturnsAll ==
    (Answered200 /\ request.limit > Cardinality(EmbeddedRows)) =>
        /\ Len(Results) = Cardinality(EmbeddedRows)
        /\ {Results[k].id : k \in DOMAIN Results} = {store[i].id : i \in EmbeddedRows}

(* C5: rows of equal similarity are returned in ascending id, so that the  *)
(* order of the results is a function of the table and the query.          *)
C5_TiesInAscendingId ==
    Answered200 =>
        \A i, j \in DOMAIN Results :
            (i < j /\ Results[i].similarity = Results[j].similarity)
                => Results[i].id < Results[j].id

-----------------------------------------------------------------------------
(* Properties of the ingestion (under SpecIngest) *)

(* The table one run of the script leaves when nothing fails, from the     *)
(* empty table                                                             *)
RECURSIVE RunFrom(_, _, _)
RunFrom(t, valid, from) ==
    IF from >= Len(valid)
    THEN t
    ELSE LET batch == Batch(valid, from)
         IN  RunFrom(Upsert(t, Records(batch, get_embeddings(BatchTexts(batch)))),
                     valid, from + BATCH_SIZE)

UninterruptedRun(source) == RunFrom(<<>>, valid_movies(source), 0)

(* C6: when a run of the script completes, whatever runs came before it    *)
(* (complete, or aborted at any batch), the table is the table of one      *)
(* uninterrupted run over the same source.                                 *)
C6_RerunEndsInSameTable ==
    ipc = "done" => store = UninterruptedRun(csv)

C6_Witness ==
    /\ ipc = "done"
    /\ runs = 2
    /\ history[1].result = "crashed"
    /\ history[1].uploaded > 0
    /\ Len(store) > history[1].uploaded

(* C7: in every state there is exactly one stored row per movie id.        *)
C7_OneRowPerId ==
    \A i, j \in DOMAIN store : store[i].id = store[j].id => i = j

C7_Witness ==
    /\ ipc = "done"
    /\ runs = 2
    /\ Len(store) >= 2
    /\ \E k, l \in DOMAIN csv :
          /\ k # l
          /\ IsValidMovie(csv[k])
          /\ IsValidMovie(csv[l])
          /\ ToInt(ToNumeric(csv[k].id)[1]) = ToInt(ToNumeric(csv[l].id)[1])

HasIdTitle(row) == ToNumeric(row.id) # None /\ row.title # None

RecordOf(row) == BuildRecord(row, Embed(build_embedding_text(row)))

(* C8: every stored row is the record of a source row whose id is a        *)
(* number, whose title is present and whose overview has more than 10      *)
(* characters; no stored overview has exactly 10 characters, and after a   *)
(* completed run the id of every source row with a number as id, a title   *)
(* and an overview of 11 characters is stored.                             *)
C8_OnlyValidRowsStored ==
    /\ \A i \in DOMAIN store :
          /\ store[i].overview # None
          /\ Len(store[i].overview[1]) # 10
          /\ \E k \in DOMAIN csv :
                /\ HasIdTitle(csv[k])
                /\ csv[k].overview # None
                /\ Len(csv[k].overview[1]) > 10
                /\ store[i] = RecordOf(csv[k])
    /\ ipc = "done" =>
          \A k \in DOMAIN csv :
             (HasIdTitle(csv[k]) /\ csv[k].overview # None /\ Len(csv[k].overview[1]) = 11)
                => \E i \in DOMAIN store :
                      /\ store[i].id = ToInt(ToNumeric(csv[k].id)[1])
                      /\ Len(store[i].overview[1]) > 10

C8_Witness ==
    /\ ipc = "done"
    /\ \E k \in DOMAIN csv :
          /\ HasIdTitle(csv[k])
          /\ csv[k].overview # None
          /\ Len(csv[k].overview[1]) = 10
          /\ \A i \in DOMAIN store : store[i].id # ToInt(ToNumeric(csv[k].id)[1])
    /\ \E i \in DOMAIN store : Len(store[i].overview[1]) = 11

(* The rows of the batches before the failing one, as the script built     *)
(* them                                                                    *)
CommittedRecords ==
    LET valid == valid_movies(csv)
    IN  [k \in 1..start |-> RecordOf(valid[k])]

(* C9: when a run ends on a failed embedding call or a failed upsert of a  *)
(* batch, the rows of the batches before it are in the table as they were  *)
(* committed (on a first run the table holds nothing else), and the last   *)
(* "Uploaded" line names the number of rows committed.                     *)
C9_FailedBatchKeepsCommitted ==
    ipc = "crashed" =>
        /\ uploaded = start
        /\ IF start = 0 THEN stdout = <<>> ELSE stdout[Len(stdout)] = start
        /\ \A k \in 1..start :
              (\A l \in (k + 1)..start : CommittedRecords[l].id # CommittedRecords[k].id)
                 => \E i \in DOMAIN store : store[i] = CommittedRecords[k]
        /\ runs = 1 =>
              \A i \in DOMAIN store : \E k \in 1..start : store[i] = CommittedRecords[k]

C9_Witness ==
    /\ ipc = "crashed"
    /\ failure = "upsert"
    /\ start > 0
    /\ Len(store) = start

(* C12: the embedding model and the vector length are the same at all     *)
(* three places: the vectors the ingestion script is about to write have   *)
(* the length of the embedding column, the query vector the handler is     *)
(* about to pass has the length of the parameter of match_movies, and the  *)
(* column and the parameter have the same length.                          *)
C12_SameDimensionEverywhere ==
    /\ ipc = "upsert" => embedding_dim = COLUMN_DIM
    /\ spc = "rpc" => embedding_dim = QUERY_DIM
    /\ COLUMN_DIM = QUERY_DIM

(* C10: a failure of the embedding call of a batch is retried for that     *)
(* batch before the run ends on it: one failure alone does not end the     *)
(* run.                                                                    *)
C10_EmbeddingCallRetried ==
    (ipc = "crashed" /\ failure = "embed") => attempts > 1

(* C15: a source row with a malformed id, an unparseable release date or   *)
(* an oversized keyword list is skipped or normalised on its own: whenever *)
(* a batch is ready to be upserted, the store accepts its statement, so no *)
(* such row makes the run abort or keeps the other rows of its batch from  *)
(* being stored.                                                           *)
C15_MalformedRowNeverBlocksBatch ==
    (ipc = "upsert" /\ embedding_dim = COLUMN_DIM) =>
        ~UpsertRejects(Records(CurrentBatch, embeddings))

(* The records of the current batch, each with the vector at its own      *)
(* position of the provider's response                                     *)
BatchRecords ==
    LET batch == CurrentBatch
    IN  [idx \in DOMAIN batch |->
            [RecordOf(batch[idx]) EXCEPT !.embedding = Some(embeddings[idx])]]

(* The step upserts a batch: it prints one more "Uploaded" line *)
UpsertStep == Len(stdout') = Len(stdout) + 1

(* C18: within a run there is at most one embedding call for a batch, and  *)
(* a batch reaches its upsert only after exactly one call that returned    *)
(* one vector per row; the table changes only in the upsert of a batch;    *)
(* the upsert of a batch happens once (the n-th upsert of the run is that  *)
(* of the n-th batch, and the loop then leaves the batch) and writes       *)
(* exactly the records of the batch, each with the vector returned at its  *)
(* own position, leaving every other row as it was.                        *)
C18_OneCallAndOneUpsertPerBatch ==
    [][/\ attempts \in 0..1 /\ attempts' \in 0..1
       /\ ipc = "upsert" =>
             /\ attempts = 1
             /\ DOMAIN embeddings = DOMAIN CurrentBatch
       /\ store' # store => UpsertStep
       /\ UpsertStep =>
             LET written == BatchRecords IN
             /\ ipc = "upsert" /\ attempts = 1
             /\ Len(stdout') = (start \div BATCH_SIZE) + 1
             /\ \/ ipc' = "done" /\ start + BATCH_SIZE >= total
                \/ ipc' = "embed" /\ start' = start + BATCH_SIZE /\ attempts' = 0
             /\ \A idx \in DOMAIN written :
                   \E i \in DOMAIN store' : store'[i] = written[idx]
             /\ \A i \in DOMAIN store' :
                   \/ i \in DOMAIN store /\ store'[i] = store[i]
                   \/ \E idx \in DOMAIN written : store'[i] = written[idx]]_vars

(* A run of two batches has ended, and two of the stored rows carry        *)
(* different vectors                                                       *)
C18_Witness ==
    /\ ipc = "done"
    /\ Len(stdout) = 2
    /\ \E i, j \in DOMAIN store : store[i].embedding # store[j].embedding

(* The batches of a source, in the order of the loop *)
BatchCount(source) == (Len(valid_movies(source)) + BATCH_SIZE - 1) \div BATCH_SIZE

BatchAt(source, b) == Batch(valid_movies(source), (b - 1) * BATCH_SIZE)

(* The table after the batches of the source were embedded and upserted in *)
(* the order p, from the table t                                           *)
RECURSIVE RunInOrder(_, _, _)
RunInOrder(t, source, p) ==
    IF p = <<>> THEN t
    ELSE LET batch == BatchAt(source, Head(p))
         IN  RunInOrder(Upsert(t, Records(batch, get_embeddings(BatchTexts(batch)))),
                        source, Tail(p))

BatchOrders(n) == {p \in [1..n -> 1..n] : \A i, j \in 1..n : p[i] = p[j] => i = j}

RowSet(t) == {t[i] : i \in DOMAIN t}

(* C19: the table a run ends with does not depend on the order in which    *)
(* its batches are embedded and upserted: when a first run has completed,  *)
(* upserting its batches in any other order (an upsert is one statement,   *)
(* so an interleaving of the upserts is an order of them) gives a table    *)
(* with the same rows.                                                     *)
C19_BatchOrderIrrelevant ==
    (ipc = "done" /\ runs = 1) =>
        \A p \in BatchOrders(BatchCount(csv)) :
            RowSet(RunInOrder(<<>>, csv, p)) = RowSet(store)

(* C19 (sources whose ids are whole numbers): the batches then hold        *)
(* different ids and their order does not matter.                          *)
C19_WholeIdsBatchOrderIrrelevant ==
    (ipc = "done" /\ runs = 1 /\ \A k \in DOMAIN csv : ToNumeric(csv[k].id) # None => IsDigits(csv[k].id)) =>
        \A p \in BatchOrders(BatchCount(csv)) :
            RowSet(RunInOrder(<<>>, csv, p)) = RowSet(store)

-----------------------------------------------------------------------------
(* Claims about the table shared by the script and bulk_update_posters     *)
(* (SpecStore)                                                             *)

(* The step is the upsert of a batch and row i becomes, whole, the record  *)
(* of the batch that has its id                                            *)
UpsertedRow(i) ==
    /\ ipc = "upsert"
    /\ \E k \in DOMAIN CurrentBatch :
          /\ Records(CurrentBatch, embeddings)[k].id = store[i].id
          /\ store'[i] = Records(CurrentBatch, embeddings)[k]

(* The step is a call of bulk_update_posters that names the id of row i,   *)
(* and nothing but the poster_path of row i changes                        *)
PosterPatched(i) ==
    /\ bpc = "idle" /\ bpc' = "returned"
    /\ \E k \in DOMAIN updates' : updates'[k].id = store[i].id
    /\ store'[i] = [store[i] EXCEPT !.poster_path = store'[i].poster_path]

(* C16 (as stated): a stored row stays in the table and is changed only by *)
(* a full ingestion upsert of that row; no other operation changes a field *)
(* of an existing row.                                                     *)
C16_ChangedOnlyByUpsert ==
    [][\A i \in DOMAIN store :
          /\ i \in DOMAIN store'
          /\ store'[i] # store[i] => UpsertedRow(i)]_vars

(* C16 (amended): a stored row stays in the table and is changed only by a *)
(* full ingestion upsert of that row or by a call of bulk_update_posters   *)
(* that names its id, which changes nothing but its poster_path.           *)
C16_ChangedOnlyByUpsertOrPosterUpdate ==
    [][\A i \in DOMAIN store :
          /\ i \in DOMAIN store'
          /\ store'[i] # store[i] => (UpsertedRow(i) \/ PosterPatched(i))]_vars

(* A row the script stored carries a poster it did not get from its source *)
C16_Witness ==
    /\ ipc = "done"
    /\ \E i \in DOMAIN store :
          /\ store[i].poster_path # None
          /\ store[i].embedding # None

ListedRows(t, u) == {i \in DOMAIN t : \E k \in DOMAIN u : u[k].id = t[i].id}

(* C20: a call of bulk_update_posters inserts and deletes no row, changes  *)
(* no column but poster_path, changes only rows whose id is in the update  *)
(* list (to a poster_path the list gives for that id), ignores the entries *)
(* whose id is not in the table, and returns the number of rows it         *)
(* updated, the rows of the table whose id is in the list.                 *)
C20_OnlyPostersOfListedRows ==
    [][(bpc = "idle" /\ bpc' = "returned") =>
          /\ DOMAIN store' = DOMAIN store
          /\ \A i \in DOMAIN store :
                /\ store'[i] = [store[i] EXCEPT !.poster_path = store'[i].poster_path]
                /\ IF i \in ListedRows(store, updates')
                   THEN \E k \in DOMAIN updates' :
                           /\ updates'[k].id = store[i].id
                           /\ store'[i].poster_path = updates'[k].poster_path
                   ELSE store'[i] = store[i]
          /\ affected' = Cardinality(ListedRows(store, updates'))]_vars

(* A call with two entries, one for a stored row and one for an id that is *)
(* not in the table, has returned 1 and set the poster                     *)
C20_Witness ==
    /\ bpc = "returned"
    /\ Len(updates) = 2
    /\ affected = 1
    /\ \E k \in DOMAIN updates : \A i \in DOMAIN store : store[i].id # updates[k].id
    /\ \E i \in DOMAIN store : store[i].poster_path # None

-----------------------------------------------------------------------------
(* Claims about one movie (SpecMovie) *)

GenresLabel == <<"G", "e", "n", "r", "e", "s", ":", " ">>
KeywordsLabel == <<"K", "e", "y", "w", "o", "r", "d", "s", ":", " ">>

MovieGenres == Join(movie.genre_names, <<",", " ">>)
MovieKeywords == Join(Take(movie.keyword_names, 20), <<",", " ">>)

(* C13: the text built for a movie is exactly                              *)
(* "{title}. {overview} Genres: {g1}, {g2}. Keywords: {k1}, {k2}, ..."     *)
(* when the movie has an overview, genres and keywords, and exactly the    *)
(* title, with no added punctuation, when it has only a title.             *)
C13_TextAsDocumented ==
    mpc # "row" =>
        /\ (movie.overview[1] # <<>> /\ MovieGenres # <<>> /\ MovieKeywords # <<>>) =>
              embedding_text =
                 movie.title[1] \o <<".", " ">> \o movie.overview[1] \o <<" ">>
                 \o GenresLabel \o MovieGenres \o <<".", " ">>
                 \o KeywordsLabel \o MovieKeywords
        /\ (movie.overview[1] = <<>> /\ MovieGenres = <<>> /\ MovieKeywords = <<>>) =>
              embedding_text = movie.title[1]

(* C13 (what the code builds): the segments that are present, the keywords *)
(* cut to the first 20, each joined to the one before it by ". ".          *)
C13_TextJoinedByPeriods ==
    mpc # "row" =>
        embedding_text =
           movie.title[1]
           \o (IF movie.overview[1] # <<>> THEN <<".", " ">> \o movie.overview[1] ELSE <<>>)
           \o (IF MovieGenres # <<>> THEN <<".", " ">> \o GenresLabel \o MovieGenres ELSE <<>>)
           \o (IF MovieKeywords # <<>> THEN <<".", " ">> \o KeywordsLabel \o MovieKeywords ELSE <<>>)

(* C14: a missing vote_average or vote_count is carried as null and a      *)
(* rating of 0 as 0, in the ingestion record and in the search result, and *)
(* the card and the modal show the rating as a rating exactly when there   *)
(* is one: a rating of 0 is shown as "0.0", a missing rating is not shown. *)
C14_ZeroRatingIsNotMissing ==
    /\ mpc \in {"record", "result", "card", "modal"} =>
          /\ record.vote_average = movie.vote_average
          /\ record.vote_count = movie.vote_count
    /\ mpc \in {"result", "card", "modal"} =>
          result.vote_average = movie.vote_average
    /\ mpc \in {"card", "modal"} =>
          card = IF movie.vote_average = None
                 THEN Nothing
                 ELSE [kind |-> "badge", text |-> ToFixed1(movie.vote_average[1])]
    /\ mpc = "modal" =>
          modal.rating = IF movie.vote_average = None
                         THEN Nothing
                         ELSE [kind |-> "badge", text |-> ToFixed1(movie.vote_average[1])]

(* C15 (the keyword list): the record keeps the first 20 keywords of an    *)
(* oversized list.                                                         *)
C15_KeywordsCutToTwenty ==
    mpc \in {"record", "result", "card", "modal"} =>
        /\ Len(record.keywords) <= 20
        /\ record.keywords = SubSeq(movie.keyword_names, 1, Len(record.keywords))
        /\ Len(movie.keyword_names) >= 20 => Len(record.keywords) = 20

-----------------------------------------------------------------------------
(* Claims about the search page (SpecPage) *)

InFlight == {c \in DOMAIN calls : calls[c].pc # "settled"}

(* C21: when a call of handleSearch ends, whether its request succeeded,   *)
(* returned a status that is not OK or threw, isLoading is false; after a  *)
(* failed search the movie list is empty and error is set, after a         *)
(* successful one error is null and the movie list is the results of the   *)
(* response.                                                               *)
C21_SearchEndsNotLoading ==
    [][\A c \in DOMAIN calls :
          (calls[c].pc # "settled" /\ calls'[c].pc = "settled") =>
              /\ isLoading' = FALSE
              /\ hasSearched' = TRUE
              /\ IF calls'[c].failed
                 THEN /\ movies' = <<>>
                      /\ error' = Some(SEARCH_FAILED)
                      /\ handleSearch(NoResponse).movies = movies'
                 ELSE /\ ResponseOk(calls'[c].response)
                      /\ error' = None
                      /\ movies' = calls'[c].response.results
                      /\ handleSearch(calls'[c].response).movies = movies']_vars

(* A search that found movies was followed by one that failed *)
C21_Witness ==
    /\ Len(calls) = 2
    /\ calls[1].pc = "settled" /\ ~calls[1].failed /\ calls[1].response.results # <<>>
    /\ calls[2].pc = "settled" /\ calls[2].failed
    /\ movies = <<>>
    /\ error # None
    /\ ~isLoading

(* C22: no submission is accepted while a search is in flight (at most one *)
(* call of handleSearch is unsettled), and once every request has settled  *)
(* the movie list is the outcome of the query submitted last: its results, *)
(* or the empty list if it failed.                                         *)
C22_LatestQueryWins ==
    /\ Cardinality(InFlight) <= 1
    /\ (calls # <<>> /\ InFlight = {}) =>
          LET last == calls[Len(calls)]
          IN  /\ movies = IF last.failed THEN <<>> ELSE last.response.results
              /\ ~isLoading

(* Two searches for different queries have settled with different results *)
C22_Witness ==
    /\ Len(calls) = 2
    /\ InFlight = {}
    /\ calls[1].query # calls[2].query
    /\ ~calls[1].failed /\ ~calls[2].failed
    /\ calls[1].response.results # calls[2].response.results
    /\ movies = calls[2].response.results

-----------------------------------------------------------------------------
(* frontend/app/components/MovieModal.tsx: the effect of the modal.        *)
(* A mount, a re-render and an unmount are each one step that includes the *)
(* effect and cleanup React runs for it.  A listener is the handleKeyDown  *)
(* closure of one run of the effect: it keeps the onClose of that render.  *)

MaxHandlers == 2
MaxRenders == 5

Handlers == 1..MaxHandlers
Keys == {"Escape", "Enter"}
Targets == {"backdrop", "content"}

handleKeyDown(id, run, h) == [id |-> id, run |-> run, onClose |-> h]

DepsNeverChanged(old, new) == FALSE

(* the dependency array [onClose] *)
DepsChanged(old, new) == old # new

(* document.removeEventListener("keydown", handleKeyDown) *)
RemoveListener(ls, e) == IF e = None THEN ls ELSE ls \ {e[1]}

(* The onClose calls a keydown event makes, in the order of registration *)
RECURSIVE Dispatch(_, _)
Dispatch(ls, key) ==
    IF ls = {} THEN <<>>
    ELSE LET l == CHOOSE x \in ls : \A y \in ls : x.id <= y.id
         IN  (IF key = "Escape" THEN <<l.onClose>> ELSE <<>>)
             \o Dispatch(ls \ {l}, key)

Mount ==
    /\ ~mounted
    /\ renders < MaxRenders
    /\ \E h \in Handlers :
          LET l == handleKeyDown(renders + 1, 1, h)
          IN  /\ mounted' = TRUE
              /\ onClose' = h
              /\ renders' = renders + 1
              /\ overflow' = "hidden"
              /\ listeners' = listeners \cup {l}
              /\ effect' = Some(l)
    /\ UNCHANGED <<store, embedding_dim, ingestVars, searchVars, movieVars, posterVars, pageVars, closed>>

Rerender ==
    /\ mounted
    /\ renders < MaxRenders
    /\ \E h \in Handlers :
          /\ onClose' = h
          /\ renders' = renders + 1
          /\ IF DepsChanged(onClose, h)
             THEN LET l == handleKeyDown(renders + 1, effect[1].run + 1, h)
                  IN  /\ overflow' = "hidden"
                      /\ listeners' = RemoveListener(listeners, effect) \cup {l}
                      /\ effect' = Some(l)
             ELSE UNCHANGED <<overflow, listeners, effect>>
    /\ UNCHANGED <<store, embedding_dim, ingestVars, searchVars, movieVars, posterVars, pageVars, mounted, closed>>

Unmount ==
    /\ mounted
    /\ mounted' = FALSE
    /\ onClose' = 0
    /\ overflow' = ""
    /\ listeners' = RemoveListener(listeners, effect)
    /\ effect' = None
    /\ UNCHANGED <<store, embedding_dim, ingestVars, searchVars, movieVars, posterVars, pageVars, renders, closed>>

KeyDown ==
    /\ \E key \in Keys : closed' = Dispatch(listeners, key)
    /\ UNCHANGED <<store, embedding_dim, ingestVars, searchVars, movieVars, posterVars, pageVars,
                   mounted, onClose, overflow, listeners, effect, renders>>

ClickBackdrop ==
    /\ mounted
    /\ \E target \in Targets :
          closed' = IF target = "backdrop" THEN <<onClose>> ELSE <<>>
    /\ UNCHANGED <<store, embedding_dim, ingestVars, searchVars, movieVars, posterVars, pageVars,
                   mounted, onClose, overflow, listeners, effect, renders>>

ModalNext == Mount \/ Rerender \/ Unmount \/ KeyDown \/ ClickBackdrop

ModalInit ==
    /\ store = <<>>
    /\ embedding_dim = COLUMN_DIM
    /\ IngestIdle /\ SearchIdle /\ MovieIdle /\ PosterIdle /\ PageIdle /\ ModalIdle

SpecModal == ModalInit /\ [][ModalNext]_vars

-----------------------------------------------------------------------------
(* Claims about the modal (SpecModal) *)

(* C23: while the modal is mounted the body overflow is "hidden" and       *)
(* exactly one keydown listener is registered, and an Escape keydown calls *)
(* the onClose of the latest render, once; when the modal is not mounted   *)
(* the body overflow is "" and no keydown listener remains.                *)
C23_LockedWithOneCurrentListener ==
    IF mounted
    THEN /\ overflow = "hidden"
         /\ Cardinality(listeners) = 1
         /\ Dispatch(listeners, "Escape") = <<onClose>>
         /\ Dispatch(listeners, "Enter") = <<>>
    ELSE /\ overflow = ""
         /\ listeners = {}

(* The modal was re-rendered with another onClose, and Escape called it *)
C23_Witness ==
    /\ mounted
    /\ effect # None
    /\ effect[1].run >= 2
    /\ effect[1].id < renders
    /\ listeners = {effect[1]}
    /\ closed = <<onClose>>

====
